---- MODULE Spec2Model ----
(***************************************************************************)
(* A model of marschall's EventDispatcher (EventDispatcher.hpp): the       *)
(* subscription registry, the event queue, and the listeners' lifetime as  *)
(* the dispatcher sees it through its weak pointers.                       *)
(*                                                                         *)
(* In Spec, SpecSub, SpecUnsub and SpecOnce the operations are called from *)
(* the top level, and a listener's onEvent only records the call (the      *)
(* listeners of marschall-test/src/main.cpp).  Each action is one whole    *)
(* call.  Spec records the call that made each step; SpecSub, SpecUnsub    *)
(* and SpecOnce record instead, per event type and listener, the history   *)
(* of subscription calls that a claim about "every later dispatch" speaks  *)
(* of.                                                                     *)
(*                                                                         *)
(* In SpecFault a listener's onEvent may throw, and in SpecNested and      *)
(* SpecLive it may call the dispatcher; there dispatch and processQueue    *)
(* are followed statement by statement.                                    *)
(***************************************************************************)
EXTENDS Integers, Sequences, FiniteSets, TLC

\* Bounds of the model.
MaxQueue == 2          \* events waiting in eventQueue
CallCap == 2           \* the history counters of SpecOnce saturate here
MaxNest == 1           \* onEvent activations, one inside the other, that call the dispatcher

\* The concrete event types of the test program (main.cpp:5-6).
EventTypes == {"TestEventA", "TestEventB"}

\* The static type of the argument of dispatch(const Event&).
EventBase == "Event"

\* The two addresses at which the program allocates its listeners.
Addrs == {"p1", "p2"}

VARIABLES
    subscriptions,  \* unordered_map<size_t, unordered_set<Subscriber,...>>
    eventQueue,     \* std::queue<std::unique_ptr<Event>>: dynamic types, front first
    owned,          \* owned[a]: a listener is allocated at address a (it has a
                    \* strong owner)
    delivered,      \* the dispatch passes of the last operation, in order
    lastOp,         \* Spec: the call that made the last step
    subscribedTo,   \* SpecSub: see SubscribedInit
    unsubscribed,   \* SpecUnsub: see UnsubscribedInit
    onceHist,       \* SpecOnce: see OnceInit
    stack,          \* SpecFault, SpecNested: the dispatcher calls in progress,
                    \* outermost first
    status,         \* how the last top-level call ended: "ok", "fault" (an
                    \* exception left it) or "undefined" (it had undefined
                    \* behaviour)
    frontPasses     \* SpecFault, SpecNested: the number of passes processQueue
                    \* has started for the event now at the front of the queue

vars == <<subscriptions, eventQueue, owned, delivered,
          lastOp, subscribedTo, unsubscribed, onceHist,
          stack, status, frontPasses>>

----------------------------------------------------------------------------
\* Type identity.

\* A faulty hash_code: every type hashes to the same key.
hash_codeSame(t) == 0

\* typeid(T).hash_code(): one value per type, distinct for the types of the
\* program.
hash_code(t) ==
    CASE t = "Event" -> 0
      [] t = "TestEventA" -> 1
      [] t = "TestEventB" -> 2

\* A faulty typeid: the static type of the expression.
typeidStatic(static, dynamic) == static

\* typeid(event) of a glvalue of polymorphic class type: the type of the most
\* derived object, whatever the static type of the expression.
typeid(static, dynamic) == dynamic

----------------------------------------------------------------------------
\* Subscribers.

\* struct Subscriber { id; callback }.  The callback is one of two lambdas,
\* told apart by oneShot; it casts the event to etype and captures a weak_ptr
\* to the listener it was made for.  expired is the state of that weak_ptr:
\* it becomes true when the last owner releases that listener, and stays
\* true, also when a new listener is allocated at the same address.
Subscriber(a, once, t) == [id |-> a, expired |-> FALSE, oneShot |-> once, etype |-> t]

\* SubscriberEqual: two subscribers, or a subscriber and a raw pointer.
SubscriberEqual(lhs, rhs) == lhs.id = rhs.id
SubscriberEqualId(lhs, id) == lhs.id = id

\* A faulty lock: the pointer is used without testing for expiry.
lockUnchecked(s) == TRUE

\* weak.lock() yields a non-null pointer iff the weak_ptr has not expired.
lock(s) == ~s.expired

\* The lambda of subscribeTo: result and whether onEvent ran.
PersistentCallback(s) ==
    IF lock(s)
    THEN [invoked |-> TRUE, ret |-> TRUE]
    ELSE [invoked |-> FALSE, ret |-> FALSE]

\* A faulty OnceCallback: it returns true after the call, as the lambda of
\* subscribeTo does.
OnceCallbackKept(s) == [invoked |-> lock(s), ret |-> lock(s)]

\* The lambda of subscribeOnceTo.
OnceCallback(s) == [invoked |-> lock(s), ret |-> FALSE]

callback(s) == IF s.oneShot THEN OnceCallback(s) ELSE PersistentCallback(s)

\* The registry once the listener at address a has lost its last owner:
\* the weak_ptrs made for it have expired.
expire(subs, a) ==
    [k \in DOMAIN subs |->
        {IF x.id = a THEN [x EXCEPT !.expired = TRUE] ELSE x : x \in subs[k]}]

\* A faulty emplace: the element is inserted beside an equal one.
emplaceDuplicate(set, s) == set \cup {s}

\* unordered_set::emplace: inserts only if no equal element is present.
emplace(set, s) ==
    IF \E x \in set : SubscriberEqual(x, s) THEN set ELSE set \cup {s}

\* A faulty erase: nothing compares equal to the key.
eraseNone(set, id) == set

\* unordered_set::erase(key) with the transparent comparison.
erase(set, id) == {x \in set : ~SubscriberEqualId(x, id)}

\* subscriptions[key]: the set under key, default-constructed if absent.
At(subs, key) == IF key \in DOMAIN subs THEN subs[key] ELSE {}

\* The map after `subscriptions[key] = set`.
Put(subs, key, set) ==
    [k \in DOMAIN subs \cup {key} |-> IF k = key THEN set ELSE subs[k]]

----------------------------------------------------------------------------
\* The operations as functions of the registry.

subscribeTo(subs, t, a) ==
    Put(subs, hash_code(t), emplace(At(subs, hash_code(t)), Subscriber(a, FALSE, t)))

subscribeOnceTo(subs, t, a) ==
    Put(subs, hash_code(t), emplace(At(subs, hash_code(t)), Subscriber(a, TRUE, t)))

\* A faulty unsubscribeFrom: the identity is erased under every key.
unsubscribeFromAll(subs, t, a) ==
    [k \in DOMAIN subs \cup {hash_code(t)} |-> erase(At(subs, k), a)]

unsubscribeFrom(subs, t, a) ==
    Put(subs, hash_code(t), erase(At(subs, hash_code(t)), a))

\* subscribeTo<T1, ..., Tn>(listener) and subscribeOnceTo<T1, ..., Tn>: the
\* fold over the pack, first type first.
RECURSIVE subscribeToPack(_, _, _)
subscribeToPack(subs, types, a) ==
    IF types = << >> THEN subs
    ELSE subscribeToPack(subscribeTo(subs, Head(types), a), Tail(types), a)

RECURSIVE subscribeOnceToPack(_, _, _)
subscribeOnceToPack(subs, types, a) ==
    IF types = << >> THEN subs
    ELSE subscribeOnceToPack(subscribeOnceTo(subs, Head(types), a), Tail(types), a)

\* A faulty dispatch: the set is looked up with subscriptions[key], which
\* creates the key, instead of find.
dispatchIndexed(subs, static, dynamic) ==
    LET key == hash_code(typeid(static, dynamic))
        set == At(subs, key)
    IN  [subs |-> Put(subs, key, {s \in set : callback(s).ret}),
         pass |-> [by |-> "dispatch",
                   event |-> dynamic,
                   invoked |-> {s \in set : callback(s).invoked},
                   erased |-> {s \in set : ~callback(s).ret}]]

\* dispatch: one pass of erase_if over the set found under the event's key.
\* Result: the registry afterwards, and the pass: the event's type, the
\* entries whose onEvent ran and the entries erased.
dispatch(subs, static, dynamic) ==
    LET key == hash_code(typeid(static, dynamic))
    IN  IF key \in DOMAIN subs
        THEN [subs |-> [subs EXCEPT ![key] = {s \in @ : callback(s).ret}],
              pass |-> [by |-> "dispatch",
                        event |-> dynamic,
                        invoked |-> {s \in subs[key] : callback(s).invoked},
                        erased |-> {s \in subs[key] : ~callback(s).ret}]]
        ELSE [subs |-> subs,
              pass |-> [by |-> "dispatch", event |-> dynamic, invoked |-> {}, erased |-> {}]]

\* A faulty processQueue: the events are taken from the back.
RECURSIVE processQueueLifo(_, _)
processQueueLifo(subs, q) ==
    IF q = <<>>
    THEN [subs |-> subs, queue |-> q, passes |-> <<>>]
    ELSE LET d == dispatch(subs, EventBase, q[Len(q)])
             r == processQueueLifo(d.subs, SubSeq(q, 1, Len(q) - 1))
         IN  [subs |-> r.subs, queue |-> r.queue,
              passes |-> <<[d.pass EXCEPT !.by = "processQueue"]>> \o r.passes]

\* processQueue: while the queue is not empty, dispatch its front through
\* dispatch(const Event&) and pop it.
RECURSIVE processQueue(_, _)
processQueue(subs, q) ==
    IF q = <<>>
    THEN [subs |-> subs, queue |-> q, passes |-> <<>>]
    ELSE LET d == dispatch(subs, EventBase, Head(q))
             r == processQueue(d.subs, Tail(q))
         IN  [subs |-> r.subs, queue |-> r.queue,
              passes |-> <<[d.pass EXCEPT !.by = "processQueue"]>> \o r.passes]

----------------------------------------------------------------------------
\* The number of times a pass ran onEvent on the listener at address a.
CallsIn(pass, a) == Cardinality({s \in pass.invoked : s.id = a})

----------------------------------------------------------------------------
\* The program's operations.  Each changes the program's state and sets
\* delivered to the dispatch passes it made; the specifications below add
\* what they record about the call.

\* make_shared / shared_ptr(new ...): a listener is allocated at a free
\* address, possibly one an expired listener occupied.
Create(a) ==
    /\ ~owned[a]
    /\ owned' = [owned EXCEPT ![a] = TRUE]
    /\ delivered' = << >>
    /\ UNCHANGED <<subscriptions, eventQueue>>

\* The last strong owner releases the listener at a.
Release(a) ==
    /\ owned[a]
    /\ owned' = [owned EXCEPT ![a] = FALSE]
    /\ subscriptions' = expire(subscriptions, a)
    /\ delivered' = << >>
    /\ UNCHANGED eventQueue

\* subscribeTo<T>(listener)
SubscribeTo(t, a) ==
    /\ owned[a]
    /\ subscriptions' = subscribeTo(subscriptions, t, a)
    /\ delivered' = << >>
    /\ UNCHANGED <<eventQueue, owned>>

\* subscribeOnceTo<T>(listener)
SubscribeOnceTo(t, a) ==
    /\ owned[a]
    /\ subscriptions' = subscribeOnceTo(subscriptions, t, a)
    /\ delivered' = << >>
    /\ UNCHANGED <<eventQueue, owned>>

\* The pack of the test program: subscribeTo<TestEventA, TestEventB>.
Pack == <<"TestEventA", "TestEventB">>

\* subscribeTo<TestEventA, TestEventB>(listener)
SubscribeToPack(a) ==
    /\ owned[a]
    /\ subscriptions' = subscribeToPack(subscriptions, Pack, a)
    /\ delivered' = << >>
    /\ UNCHANGED <<eventQueue, owned>>

\* subscribeOnceTo<TestEventA, TestEventB>(listener)
SubscribeOnceToPack(a) ==
    /\ owned[a]
    /\ subscriptions' = subscribeOnceToPack(subscriptions, Pack, a)
    /\ delivered' = << >>
    /\ UNCHANGED <<eventQueue, owned>>

\* unsubscribeFrom<T>(listener)
UnsubscribeFrom(t, a) ==
    /\ owned[a]
    /\ subscriptions' = unsubscribeFrom(subscriptions, t, a)
    /\ delivered' = << >>
    /\ UNCHANGED <<eventQueue, owned>>

\* dispatch(event), through either overload: the static type of the argument
\* is Event or the concrete type.
Dispatch(static, t) ==
    LET d == dispatch(subscriptions, static, t)
    IN  /\ subscriptions' = d.subs
        /\ delivered' = <<d.pass>>
        /\ UNCHANGED <<eventQueue, owned>>

\* A faulty QueueEvent: the event is also dispatched at once.
QueueEventDispatches(t) ==
    LET d == dispatch(subscriptions, EventBase, t)
    IN  /\ Len(eventQueue) < MaxQueue
        /\ eventQueue' = Append(eventQueue, t)
        /\ subscriptions' = d.subs
        /\ delivered' = <<d.pass>>
        /\ UNCHANGED owned

\* queueEvent(std::make_unique<T>(...))
QueueEvent(t) ==
    /\ Len(eventQueue) < MaxQueue
    /\ eventQueue' = Append(eventQueue, t)
    /\ delivered' = << >>
    /\ UNCHANGED <<subscriptions, owned>>

\* processQueue()
ProcessQueue ==
    LET r == processQueue(subscriptions, eventQueue)
    IN  /\ subscriptions' = r.subs
        /\ eventQueue' = r.queue
        /\ delivered' = r.passes
        /\ UNCHANGED owned

\* A call, as the specifications record it.
NoType == "-"
NoId == "-"
Call(op, t, a) == [op |-> op, type |-> t, id |-> a]

----------------------------------------------------------------------------
\* What the specifications record.

EntriesOf(subs, t, a) == {x \in At(subs, hash_code(t)) : x.id = a}

\* The event types a call names.
TypesOf(c) ==
    IF c.op \in {"subscribeToPack", "subscribeOnceToPack"}
    THEN {Pack[i] : i \in DOMAIN Pack}
    ELSE {c.type}

Subscribes(c) == c.op \in {"subscribeTo", "subscribeToPack"}
SubscribesOnce(c) == c.op \in {"subscribeOnceTo", "subscribeOnceToPack"}

\* subscribedTo[t]: the listeners L such that subscribeTo<t>(L) was called
\* and, since that call, L has kept a strong owner and unsubscribeFrom<t>(L)
\* was not called.
SubscribedInit == [t \in EventTypes |-> {}]

SubscribedAfter(g, c) ==
    [t \in EventTypes |->
        IF Subscribes(c) /\ t \in TypesOf(c) THEN g[t] \cup {c.id}
        ELSE IF c.op = "unsubscribeFrom" /\ t = c.type THEN g[t] \ {c.id}
        ELSE IF c.op = "release" THEN g[t] \ {c.id}
        ELSE g[t]]

\* unsubscribed[t][a]: "none", or what the most recent unsubscribeFrom<t>(L)
\* found under L's identity, if L (the listener now at a) was not subscribed
\* to t since.
UnsubscribedInit == [t \in EventTypes |-> [a \in Addrs |-> "none"]]

Found(subs, t, a) ==
    IF EntriesOf(subs, t, a) = {} THEN "absent"
    ELSE IF \E x \in EntriesOf(subs, t, a) : x.oneShot THEN "OneShot"
    ELSE "Persistent"

UnsubscribedAfter(g, c, subs) ==
    [t \in EventTypes |-> [a \in Addrs |->
        IF a # c.id THEN g[t][a]
        ELSE IF c.op = "unsubscribeFrom" /\ t = c.type THEN Found(subs, t, a)
        ELSE IF (Subscribes(c) \/ SubscribesOnce(c)) /\ t \in TypesOf(c) THEN "none"
        ELSE IF c.op = "release" THEN "none"
        ELSE g[t][a]]]

\* onceHist[t][a]: tracked when the most recent subscription call for t made with
\* L (the listener now at a) is a subscribeOnceTo<t>(L) made while t's set
\* held no entry with L's identity, and L has kept a strong owner since; then
\* the number of dispatch passes of t since that call and the number of times
\* they ran L's onEvent, both saturating at CallCap.
NoOnce == [tracked |-> FALSE, dispatches |-> 0, calls |-> 0]
OnceInit == [t \in EventTypes |-> [a \in Addrs |-> NoOnce]]

Min(x, y) == IF x < y THEN x ELSE y

OncePass(g, pass) ==
    [t \in EventTypes |-> [a \in Addrs |->
        IF t = pass.event /\ g[t][a].tracked
        THEN [g[t][a] EXCEPT !.dispatches = Min(CallCap, @ + 1),
                             !.calls = Min(CallCap, @ + CallsIn(pass, a))]
        ELSE g[t][a]]]

RECURSIVE OncePasses(_, _)
OncePasses(g, passes) ==
    IF passes = << >> THEN g ELSE OncePasses(OncePass(g, Head(passes)), Tail(passes))

OnceCall(g, c, subs) ==
    [t \in EventTypes |-> [a \in Addrs |->
        IF a # c.id THEN g[t][a]
        ELSE IF SubscribesOnce(c) /\ t \in TypesOf(c)
             THEN [tracked |-> EntriesOf(subs, t, a) = {}, dispatches |-> 0, calls |-> 0]
        ELSE IF (Subscribes(c) /\ t \in TypesOf(c)) \/ (c.op = "unsubscribeFrom" /\ t = c.type)
             THEN NoOnce
        ELSE IF c.op = "release" THEN NoOnce
        ELSE g[t][a]]]

OnceAfter(g, c, subs, passes) == OncePasses(OnceCall(g, c, subs), passes)

RecordCall(c) ==
    /\ lastOp' = c
    /\ UNCHANGED <<subscribedTo, unsubscribed, onceHist, stack, status, frontPasses>>

RecordSub(c) ==
    /\ subscribedTo' = SubscribedAfter(subscribedTo, c)
    /\ UNCHANGED <<lastOp, unsubscribed, onceHist, stack, status, frontPasses>>

RecordUnsub(c) ==
    /\ unsubscribed' = UnsubscribedAfter(unsubscribed, c, subscriptions)
    /\ UNCHANGED <<lastOp, subscribedTo, onceHist, stack, status, frontPasses>>

RecordOnce(c) ==
    /\ onceHist' = OnceAfter(onceHist, c, subscriptions, delivered')
    /\ UNCHANGED <<lastOp, subscribedTo, unsubscribed, stack, status, frontPasses>>

----------------------------------------------------------------------------
\* The state after construction: no subscription, no queued event, no
\* listener allocated yet.
Init ==
    /\ subscriptions = << >>
    /\ eventQueue = << >>
    /\ owned = [a \in Addrs |-> FALSE]
    /\ delivered = << >>
    /\ lastOp = Call("init", NoType, NoId)
    /\ subscribedTo = SubscribedInit
    /\ unsubscribed = UnsubscribedInit
    /\ onceHist = OnceInit
    /\ stack = << >>
    /\ status = "ok"
    /\ frontPasses = 0

\* Spec: every step records the call that made it.
Next ==
    \/ \E a \in Addrs : Create(a) /\ RecordCall(Call("create", NoType, a))
    \/ \E a \in Addrs : Release(a) /\ RecordCall(Call("release", NoType, a))
    \/ \E t \in EventTypes, a \in Addrs :
          SubscribeTo(t, a) /\ RecordCall(Call("subscribeTo", t, a))
    \/ \E a \in Addrs : SubscribeToPack(a) /\ RecordCall(Call("subscribeToPack", NoType, a))
    \/ \E t \in EventTypes, a \in Addrs :
          SubscribeOnceTo(t, a) /\ RecordCall(Call("subscribeOnceTo", t, a))
    \/ \E a \in Addrs :
          SubscribeOnceToPack(a) /\ RecordCall(Call("subscribeOnceToPack", NoType, a))
    \/ \E t \in EventTypes, a \in Addrs :
          UnsubscribeFrom(t, a) /\ RecordCall(Call("unsubscribeFrom", t, a))
    \/ \E t \in EventTypes : \E s \in {EventBase, t} :
          Dispatch(s, t) /\ RecordCall(Call("dispatch", t, NoId))
    \/ \E t \in EventTypes : QueueEvent(t) /\ RecordCall(Call("queueEvent", t, NoId))
    \/ ProcessQueue /\ RecordCall(Call("processQueue", NoType, NoId))

Spec == Init /\ [][Next]_vars

\* SpecSub: every step updates subscribedTo.
NextSub ==
    \/ \E a \in Addrs : Create(a) /\ RecordSub(Call("create", NoType, a))
    \/ \E a \in Addrs : Release(a) /\ RecordSub(Call("release", NoType, a))
    \/ \E t \in EventTypes, a \in Addrs :
          SubscribeTo(t, a) /\ RecordSub(Call("subscribeTo", t, a))
    \/ \E a \in Addrs : SubscribeToPack(a) /\ RecordSub(Call("subscribeToPack", NoType, a))
    \/ \E t \in EventTypes, a \in Addrs :
          SubscribeOnceTo(t, a) /\ RecordSub(Call("subscribeOnceTo", t, a))
    \/ \E a \in Addrs :
          SubscribeOnceToPack(a) /\ RecordSub(Call("subscribeOnceToPack", NoType, a))
    \/ \E t \in EventTypes, a \in Addrs :
          UnsubscribeFrom(t, a) /\ RecordSub(Call("unsubscribeFrom", t, a))
    \/ \E t \in EventTypes : \E s \in {EventBase, t} :
          Dispatch(s, t) /\ RecordSub(Call("dispatch", t, NoId))
    \/ \E t \in EventTypes : QueueEvent(t) /\ RecordSub(Call("queueEvent", t, NoId))
    \/ ProcessQueue /\ RecordSub(Call("processQueue", NoType, NoId))

SpecSub == Init /\ [][NextSub]_vars

\* SpecUnsub: every step updates unsubscribed.
NextUnsub ==
    \/ \E a \in Addrs : Create(a) /\ RecordUnsub(Call("create", NoType, a))
    \/ \E a \in Addrs : Release(a) /\ RecordUnsub(Call("release", NoType, a))
    \/ \E t \in EventTypes, a \in Addrs :
          SubscribeTo(t, a) /\ RecordUnsub(Call("subscribeTo", t, a))
    \/ \E a \in Addrs : SubscribeToPack(a) /\ RecordUnsub(Call("subscribeToPack", NoType, a))
    \/ \E t \in EventTypes, a \in Addrs :
          SubscribeOnceTo(t, a) /\ RecordUnsub(Call("subscribeOnceTo", t, a))
    \/ \E a \in Addrs :
          SubscribeOnceToPack(a) /\ RecordUnsub(Call("subscribeOnceToPack", NoType, a))
    \/ \E t \in EventTypes, a \in Addrs :
          UnsubscribeFrom(t, a) /\ RecordUnsub(Call("unsubscribeFrom", t, a))
    \/ \E t \in EventTypes : \E s \in {EventBase, t} :
          Dispatch(s, t) /\ RecordUnsub(Call("dispatch", t, NoId))
    \/ \E t \in EventTypes : QueueEvent(t) /\ RecordUnsub(Call("queueEvent", t, NoId))
    \/ ProcessQueue /\ RecordUnsub(Call("processQueue", NoType, NoId))

SpecUnsub == Init /\ [][NextUnsub]_vars

\* SpecOnce: every step updates onceHist.
NextOnce ==
    \/ \E a \in Addrs : Create(a) /\ RecordOnce(Call("create", NoType, a))
    \/ \E a \in Addrs : Release(a) /\ RecordOnce(Call("release", NoType, a))
    \/ \E t \in EventTypes, a \in Addrs :
          SubscribeTo(t, a) /\ RecordOnce(Call("subscribeTo", t, a))
    \/ \E a \in Addrs : SubscribeToPack(a) /\ RecordOnce(Call("subscribeToPack", NoType, a))
    \/ \E t \in EventTypes, a \in Addrs :
          SubscribeOnceTo(t, a) /\ RecordOnce(Call("subscribeOnceTo", t, a))
    \/ \E a \in Addrs :
          SubscribeOnceToPack(a) /\ RecordOnce(Call("subscribeOnceToPack", NoType, a))
    \/ \E t \in EventTypes, a \in Addrs :
          UnsubscribeFrom(t, a) /\ RecordOnce(Call("unsubscribeFrom", t, a))
    \/ \E t \in EventTypes : \E s \in {EventBase, t} :
          Dispatch(s, t) /\ RecordOnce(Call("dispatch", t, NoId))
    \/ \E t \in EventTypes : QueueEvent(t) /\ RecordOnce(Call("queueEvent", t, NoId))
    \/ ProcessQueue /\ RecordOnce(Call("processQueue", NoType, NoId))

SpecOnce == Init /\ [][NextOnce]_vars

----------------------------------------------------------------------------
\* Calls in progress.
\*
\* In SpecFault and SpecNested a listener's onEvent may do more than record
\* the call, so dispatch and processQueue are followed statement by
\* statement.  stack holds one frame per dispatcher call in progress:
\*   op        "dispatch" or "processQueue"
\*   by        who called it: "top" (the program), "processQueue" (the drain
\*             loop) or "onEvent" (a listener's callback)
\*   event     dispatch: the dynamic type of the event
\*   todo      dispatch: the identities of the elements erase_if has not
\*             reached yet; the iteration order of an unordered_set is
\*             unspecified, so any of them can be the next
\*   cur       dispatch: the identity of the element whose callback is running
\*   acted     dispatch: the running onEvent has made its dispatcher call
\*   added     dispatch: the identities inserted into the set during the pass
\*   dangling  dispatch: the element the iterator of erase_if points at was
\*             erased while its callback ran

PassFrame(by, static, dynamic) ==
    LET set == At(subscriptions, hash_code(typeid(static, dynamic)))
    IN  [op |-> "dispatch", by |-> by, event |-> dynamic,
         todo |-> {x.id : x \in set}, cur |-> NoId, acted |-> FALSE,
         added |-> {}, dangling |-> FALSE]

DrainFrame(by) ==
    [op |-> "processQueue", by |-> by, event |-> NoType,
     todo |-> {}, cur |-> NoId, acted |-> FALSE,
     added |-> {}, dangling |-> FALSE]

Top == stack[Len(stack)]
Below == SubSeq(stack, 1, Len(stack) - 1)

\* No dispatcher call is in progress and the program's behaviour is defined.
Idle == stack = << >> /\ status # "undefined"

\* erase_if of the top frame is between two elements.
InPass == stack # << >> /\ Top.op = "dispatch" /\ Top.cur = NoId

\* The onEvent of the current element of the top frame is running.
InOnEvent == stack # << >> /\ Top.op = "dispatch" /\ Top.cur # NoId

\* The element of the set under t's key with identity a.
EntryOf(subs, t, a) == CHOOSE x \in EntriesOf(subs, t, a) : TRUE

\* The frames after the element with identity a left the set under t's key:
\* a pass over that set will not reach it, and a pass whose iterator points
\* at it is left with an invalid iterator.
Erased(frames, t, a) ==
    [i \in DOMAIN frames |->
        IF frames[i].op = "dispatch" /\ frames[i].event = t
        THEN [frames[i] EXCEPT !.todo = @ \ {a},
                               !.dangling = @ \/ (frames[i].cur = a)]
        ELSE frames[i]]

\* The frames after an element with identity a was inserted into the set
\* under t's key: in the passes over that set whose indices are in ahead, the
\* new element lies ahead of the iterator.
Inserted(frames, t, a, ahead) ==
    [i \in DOMAIN frames |->
        IF frames[i].op = "dispatch" /\ frames[i].event = t
        THEN [frames[i] EXCEPT !.added = @ \cup {a},
                               !.todo = IF i \in ahead THEN @ \cup {a} ELSE @]
        ELSE frames[i]]

\* The number of dispatcher calls in progress that an onEvent made.
Nesting == Cardinality({i \in DOMAIN stack : stack[i].by = "onEvent"})

\* The running onEvent may call the dispatcher: it has not done so yet, and
\* it does not run inside MaxNest onEvents that did.
MayCall == InOnEvent /\ ~Top.acted /\ Nesting < MaxNest

\* The top frame once its onEvent has made its dispatcher call.
Acted(frames) == [frames EXCEPT ![Len(frames)].acted = TRUE]

\* dispatch(event) called by the program: find the set.
DispatchBegin(static, t) ==
    /\ Idle
    /\ stack' = <<PassFrame("top", static, t)>>
    /\ status' = "ok"
    /\ UNCHANGED <<subscriptions, eventQueue, owned, frontPasses>>

\* erase_if reaches an element whose weak_ptr has expired: the callback
\* returns false without a call, and the element is erased.
CallbackExpired(a) ==
    /\ InPass
    /\ a \in Top.todo
    /\ ~lock(EntryOf(subscriptions, Top.event, a))
    /\ ~callback(EntryOf(subscriptions, Top.event, a)).ret
    /\ subscriptions' = [subscriptions EXCEPT ![hash_code(Top.event)] = erase(@, a)]
    /\ stack' = Erased(stack, Top.event, a)
    /\ UNCHANGED <<eventQueue, owned, status, frontPasses>>

\* erase_if reaches an element whose weak_ptr locks: onEvent is called.
OnEvent(a) ==
    /\ InPass
    /\ a \in Top.todo
    /\ lock(EntryOf(subscriptions, Top.event, a))
    /\ stack' = [stack EXCEPT ![Len(stack)].cur = a,
                              ![Len(stack)].todo = @ \ {a},
                              ![Len(stack)].acted = FALSE]
    /\ UNCHANGED <<subscriptions, eventQueue, owned, status, frontPasses>>

\* onEvent returns, the callback returns true (subscribeTo) or false
\* (subscribeOnceTo), and erase_if erases the element if it returned false.
OnEventReturn ==
    /\ InOnEvent
    /\ ~Top.dangling
    /\ LET a == Top.cur
           t == Top.event
           done == [stack EXCEPT ![Len(stack)].cur = NoId]
       IN  IF callback(EntryOf(subscriptions, t, a)).ret
           THEN /\ stack' = done
                /\ UNCHANGED subscriptions
           ELSE /\ stack' = Erased(done, t, a)
                /\ subscriptions' = [subscriptions EXCEPT ![hash_code(t)] = erase(@, a)]
    /\ UNCHANGED <<eventQueue, owned, status, frontPasses>>

\* onEvent returns to an erase_if whose iterator points at an erased element:
\* erasing through it or advancing it is undefined.
OnEventReturnDangling ==
    /\ InOnEvent
    /\ Top.dangling
    /\ stack' = << >>
    /\ status' = "undefined"
    /\ UNCHANGED <<subscriptions, eventQueue, owned, frontPasses>>

\* A faulty OnEventThrow: dispatch swallows the exception and goes on.
OnEventThrowCaught ==
    /\ InOnEvent
    /\ stack' = [stack EXCEPT ![Len(stack)].cur = NoId]
    /\ UNCHANGED <<subscriptions, eventQueue, owned, status, frontPasses>>

\* onEvent throws.  Neither the callback, erase_if, dispatch nor processQueue
\* has a handler: the exception leaves every dispatcher call in progress.
\* Nothing is erased and nothing is popped.
OnEventThrow ==
    /\ InOnEvent
    /\ stack' = << >>
    /\ status' = "fault"
    /\ UNCHANGED <<subscriptions, eventQueue, owned, frontPasses>>

\* erase_if is past the last element and dispatch returns to the program or
\* to the onEvent that called it.
DispatchReturn ==
    /\ InPass
    /\ Top.todo = {}
    /\ Top.by # "processQueue"
    /\ stack' = Below
    /\ UNCHANGED <<subscriptions, eventQueue, owned, status, frontPasses>>

\* processQueue() called by the program.
ProcessQueueBegin ==
    /\ Idle
    /\ stack' = <<DrainFrame("top")>>
    /\ status' = "ok"
    /\ UNCHANGED <<subscriptions, eventQueue, owned, frontPasses>>

\* A faulty ProcessQueueFront: the event is popped before it is dispatched.
ProcessQueueFrontPopped ==
    /\ stack # << >>
    /\ Top.op = "processQueue"
    /\ eventQueue # << >>
    /\ stack' = Append(stack, PassFrame("popped", EventBase, Head(eventQueue)))
    /\ eventQueue' = Tail(eventQueue)
    /\ frontPasses' = 0
    /\ UNCHANGED <<subscriptions, owned, status>>

\* The loop of processQueue finds the queue non-empty and calls
\* dispatch(*eventQueue.front()).
ProcessQueueFront ==
    /\ stack # << >>
    /\ Top.op = "processQueue"
    /\ eventQueue # << >>
    /\ stack' = Append(stack, PassFrame("processQueue", EventBase, Head(eventQueue)))
    /\ frontPasses' = Min(CallCap, frontPasses + 1)
    /\ UNCHANGED <<subscriptions, eventQueue, owned, status>>

\* That dispatch returns and processQueue pops the front of the queue.
ProcessQueuePop ==
    /\ InPass
    /\ Top.todo = {}
    /\ Top.by = "processQueue"
    /\ eventQueue # << >>
    /\ stack' = Below
    /\ eventQueue' = Tail(eventQueue)
    /\ frontPasses' = 0
    /\ UNCHANGED <<subscriptions, owned, status>>

\* That dispatch returns and the queue is empty: pop() on an empty queue is
\* undefined.
ProcessQueuePopEmpty ==
    /\ InPass
    /\ Top.todo = {}
    /\ Top.by = "processQueue"
    /\ eventQueue = << >>
    /\ stack' = << >>
    /\ status' = "undefined"
    /\ UNCHANGED <<subscriptions, eventQueue, owned, frontPasses>>

\* The loop of processQueue finds the queue empty and processQueue returns.
ProcessQueueReturn ==
    /\ stack # << >>
    /\ Top.op = "processQueue"
    /\ eventQueue = << >>
    /\ stack' = Below
    /\ UNCHANGED <<subscriptions, eventQueue, owned, status, frontPasses>>

\* onEvent calls subscribeTo<T>(listener).  If the element is inserted, it
\* lands ahead of or behind the iterator of each pass over T's set.
OnEventSubscribeTo(t, b) ==
    /\ MayCall
    /\ owned[b]
    /\ subscriptions' = subscribeTo(subscriptions, t, b)
    /\ IF EntriesOf(subscriptions, t, b) = {}
       THEN \E ahead \in SUBSET DOMAIN stack :
               stack' = Inserted(Acted(stack), t, b, ahead)
       ELSE stack' = Acted(stack)
    /\ UNCHANGED <<eventQueue, owned, status, frontPasses>>

\* onEvent calls unsubscribeFrom<T>(listener).
OnEventUnsubscribeFrom(t, b) ==
    /\ MayCall
    /\ owned[b]
    /\ subscriptions' = unsubscribeFrom(subscriptions, t, b)
    /\ stack' = Erased(Acted(stack), t, b)
    /\ UNCHANGED <<eventQueue, owned, status, frontPasses>>

\* onEvent calls queueEvent.
OnEventQueueEvent(t) ==
    /\ MayCall
    /\ Len(eventQueue) < MaxQueue
    /\ eventQueue' = Append(eventQueue, t)
    /\ stack' = Acted(stack)
    /\ UNCHANGED <<subscriptions, owned, status, frontPasses>>

\* onEvent calls dispatch.
OnEventDispatch(static, t) ==
    /\ MayCall
    /\ stack' = Append(Acted(stack), PassFrame("onEvent", static, t))
    /\ UNCHANGED <<subscriptions, eventQueue, owned, status, frontPasses>>

\* onEvent calls processQueue.
OnEventProcessQueue ==
    /\ MayCall
    /\ stack' = Append(Acted(stack), DrainFrame("onEvent"))
    /\ UNCHANGED <<subscriptions, eventQueue, owned, status, frontPasses>>

\* What SpecFault and SpecNested record: the statement that made the step.
RecordStep(c) ==
    /\ lastOp' = c
    /\ UNCHANGED <<delivered, subscribedTo, unsubscribed, onceHist>>

\* A whole call of the program made while no dispatcher call is in progress.
RecordIdle(c) ==
    /\ Idle
    /\ lastOp' = c
    /\ status' = "ok"
    /\ UNCHANGED <<subscribedTo, unsubscribed, onceHist, stack, frontPasses>>

\* SpecFault: a listener's onEvent returns or throws.
NextFault ==
    \/ \E a \in Addrs : Create(a) /\ RecordIdle(Call("create", NoType, a))
    \/ \E a \in Addrs : Release(a) /\ RecordIdle(Call("release", NoType, a))
    \/ \E t \in EventTypes, a \in Addrs :
          SubscribeTo(t, a) /\ RecordIdle(Call("subscribeTo", t, a))
    \/ \E t \in EventTypes, a \in Addrs :
          SubscribeOnceTo(t, a) /\ RecordIdle(Call("subscribeOnceTo", t, a))
    \/ \E t \in EventTypes, a \in Addrs :
          UnsubscribeFrom(t, a) /\ RecordIdle(Call("unsubscribeFrom", t, a))
    \/ \E t \in EventTypes : QueueEvent(t) /\ RecordIdle(Call("queueEvent", t, NoId))
    \/ \E t \in EventTypes : \E s \in {EventBase, t} :
          DispatchBegin(s, t) /\ RecordStep(Call("dispatch", t, NoId))
    \/ ProcessQueueBegin /\ RecordStep(Call("processQueue", NoType, NoId))
    \/ ProcessQueueFront /\ RecordStep(Call("front", Head(eventQueue), NoId))
    \/ ProcessQueuePop /\ RecordStep(Call("pop", Top.event, NoId))
    \/ ProcessQueueReturn /\ RecordStep(Call("processQueueReturn", NoType, NoId))
    \/ \E a \in Addrs : CallbackExpired(a) /\ RecordStep(Call("expired", Top.event, a))
    \/ \E a \in Addrs : OnEvent(a) /\ RecordStep(Call("onEvent", Top.event, a))
    \/ OnEventReturn /\ RecordStep(Call("return", Top.event, Top.cur))
    \/ DispatchReturn /\ RecordStep(Call("dispatchReturn", Top.event, NoId))
    \/ OnEventThrow /\ RecordStep(Call("throw", Top.event, Top.cur))

SpecFault == Init /\ [][NextFault]_vars

\* SpecNested: a listener's onEvent makes at most one call of the dispatcher
\* and returns.
NextNested ==
    \/ \E a \in Addrs : Create(a) /\ RecordIdle(Call("create", NoType, a))
    \/ \E a \in Addrs : Release(a) /\ RecordIdle(Call("release", NoType, a))
    \/ \E t \in EventTypes, a \in Addrs :
          SubscribeTo(t, a) /\ RecordIdle(Call("subscribeTo", t, a))
    \/ \E t \in EventTypes, a \in Addrs :
          SubscribeOnceTo(t, a) /\ RecordIdle(Call("subscribeOnceTo", t, a))
    \/ \E t \in EventTypes, a \in Addrs :
          UnsubscribeFrom(t, a) /\ RecordIdle(Call("unsubscribeFrom", t, a))
    \/ \E t \in EventTypes : QueueEvent(t) /\ RecordIdle(Call("queueEvent", t, NoId))
    \/ \E t \in EventTypes : \E s \in {EventBase, t} :
          DispatchBegin(s, t) /\ RecordStep(Call("dispatch", t, NoId))
    \/ ProcessQueueBegin /\ RecordStep(Call("processQueue", NoType, NoId))
    \/ ProcessQueueFront /\ RecordStep(Call("front", Head(eventQueue), NoId))
    \/ ProcessQueuePop /\ RecordStep(Call("pop", Top.event, NoId))
    \/ ProcessQueueReturn /\ RecordStep(Call("processQueueReturn", NoType, NoId))
    \/ \E a \in Addrs : CallbackExpired(a) /\ RecordStep(Call("expired", Top.event, a))
    \/ \E a \in Addrs : OnEvent(a) /\ RecordStep(Call("onEvent", Top.event, a))
    \/ OnEventReturn /\ RecordStep(Call("return", Top.event, Top.cur))
    \/ DispatchReturn /\ RecordStep(Call("dispatchReturn", Top.event, NoId))
    \/ OnEventReturnDangling /\ RecordStep(Call("undefined", Top.event, Top.cur))
    \/ ProcessQueuePopEmpty /\ RecordStep(Call("undefined", Top.event, NoId))
    \/ \E t \in EventTypes, b \in Addrs :
          OnEventSubscribeTo(t, b) /\ RecordStep(Call("subscribeTo", t, b))
    \/ \E t \in EventTypes, b \in Addrs :
          OnEventUnsubscribeFrom(t, b) /\ RecordStep(Call("unsubscribeFrom", t, b))
    \/ \E t \in EventTypes : OnEventQueueEvent(t) /\ RecordStep(Call("queueEvent", t, NoId))
    \/ \E t \in EventTypes : \E s \in {EventBase, t} :
          OnEventDispatch(s, t) /\ RecordStep(Call("dispatch", t, NoId))
    \/ OnEventProcessQueue /\ RecordStep(Call("processQueue", NoType, NoId))

SpecNested == Init /\ [][NextNested]_vars

\* SpecLive: SpecNested, and the thread that runs the dispatcher keeps
\* running: a statement that can be executed is executed.
SpecLive == Init /\ [][NextNested]_vars /\ WF_vars(NextNested)

----------------------------------------------------------------------------
\* Claims.

IsPass(c) == c.op \in {"dispatch", "processQueue"}

\* C1: after subscribeTo<T>(L), whatever the registry held before the call,
\* every later top-level dispatch of an event of type T runs L.onEvent
\* exactly once, as long as L has a strong owner and unsubscribeFrom<T>(L)
\* was not called.  (A property of SpecSub.)
C1_SubscribedCalledOncePerDispatch ==
    \A i \in DOMAIN delivered :
        delivered[i].by = "dispatch" =>
            \A a \in subscribedTo[delivered[i].event] : CallsIn(delivered[i], a) = 1

\* C2: after unsubscribeFrom<T>(L), no dispatch pass of T, made by dispatch
\* or by a drain, runs L.onEvent until L is subscribed to T again, whatever
\* the call found under L's identity.  (A property of SpecUnsub.)
C2_NoCallAfterUnsubscribe ==
    \A i \in DOMAIN delivered : \A a \in Addrs :
        unsubscribed[delivered[i].event][a] # "none" => CallsIn(delivered[i], a) = 0

\* A pass of T ran another listener while L, unsubscribed from T where it
\* had an entry, is still owned.
C2_Witness ==
    \E i \in DOMAIN delivered : \E a \in Addrs :
        /\ unsubscribed[delivered[i].event][a] \in {"Persistent", "OneShot"}
        /\ owned[a]
        /\ delivered[i].invoked # {}

\* C3: a live listener registered with subscribeOnceTo<T> while T's set held
\* no entry with its identity is invoked exactly once over any number n >= 1
\* of later dispatch passes of T: until the first pass its OneShot entry
\* waits uninvoked, and from the first pass on it has been invoked once
\* and has no entry.  (A property of SpecOnce.)
C3_OneShotExactlyOnce ==
    \A t \in EventTypes, a \in Addrs :
        onceHist[t][a].tracked =>
            IF onceHist[t][a].dispatches = 0
            THEN /\ onceHist[t][a].calls = 0
                 /\ \E x \in EntriesOf(subscriptions, t, a) : x.oneShot /\ ~x.expired
            ELSE /\ onceHist[t][a].calls = 1
                 /\ EntriesOf(subscriptions, t, a) = {}

\* Two or more passes of T were made since the subscribeOnceTo<T>.
C3_Witness ==
    \E t \in EventTypes, a \in Addrs :
        /\ onceHist[t][a].tracked
        /\ onceHist[t][a].dispatches >= 2
        /\ owned[a]

\* The step form of C4: onEvent never runs on a listener all of whose owners released it; a
\* dispatch pass of T makes no call through an expired entry of T's set and
\* removes it, Persistent or OneShot, and keeps the Persistent entries of
\* the listeners still alive.
C4_Step ==
    IsPass(lastOp') =>
        /\ \A i \in DOMAIN delivered' : \A s \in delivered'[i].invoked :
              ~s.expired /\ owned'[s.id]
        /\ \A i \in DOMAIN delivered' :
              LET k == hash_code(delivered'[i].event)
                  pre == At(subscriptions, k)
                  post == At(subscriptions', k)
              IN  /\ post \subseteq pre
                  /\ \A x \in pre : x.expired =>
                        /\ x \notin post
                        /\ \A j \in DOMAIN delivered' : x \notin delivered'[j].invoked
                  /\ \A x \in pre : (~x.expired /\ ~x.oneShot) => x \in post

\* C4: every step satisfies C4_Step: no call is ever made through an expired
\* entry, and the first pass of T after the expiry erases the entry and
\* keeps the Persistent entries of live listeners.
C4_ExpiredNeverCalledAndPruned == [][C4_Step]_vars

\* The passes of one operation erased an expired Persistent entry and an
\* expired OneShot entry, and one of them ran and kept the Persistent entry
\* of a live listener beside an expired entry it erased.
C4_Witness ==
    /\ IsPass(lastOp)
    /\ \E i \in DOMAIN delivered : \E x \in delivered[i].erased :
          x.expired /\ ~x.oneShot
    /\ \E i \in DOMAIN delivered : \E x \in delivered[i].erased :
          x.expired /\ x.oneShot
    /\ \E i \in DOMAIN delivered :
          /\ \E x \in delivered[i].erased : x.expired
          /\ \E x \in delivered[i].invoked :
                ~x.oneShot /\ x \in At(subscriptions, hash_code(delivered[i].event))

\* C5: after subscribeTo<T>(L) or subscribeOnceTo<T>(L), the single entry for
\* (L, T) has the persistence mode of that most recent call.
C5_ModeOfMostRecentCall ==
    /\ lastOp.op = "subscribeTo" =>
          /\ Cardinality(EntriesOf(subscriptions, lastOp.type, lastOp.id)) = 1
          /\ \A x \in EntriesOf(subscriptions, lastOp.type, lastOp.id) : ~x.oneShot
    /\ lastOp.op = "subscribeOnceTo" =>
          /\ Cardinality(EntriesOf(subscriptions, lastOp.type, lastOp.id)) = 1
          /\ \A x \in EntriesOf(subscriptions, lastOp.type, lastOp.id) : x.oneShot

\* C6: each key's subscription set holds at most one entry per listener
\* identity, and one dispatch pass runs a given listener at most once.
C6_OneEntryPerIdentity ==
    /\ \A k \in DOMAIN subscriptions : \A x, y \in subscriptions[k] :
          x.id = y.id => x = y
    /\ \A i \in DOMAIN delivered : \A a \in Addrs : CallsIn(delivered[i], a) <= 1

\* The listener was subscribed to T a second time: subscribeOnceTo found its
\* live Persistent entry under T.
C6_Witness ==
    /\ lastOp.op = "subscribeOnceTo"
    /\ \E x \in EntriesOf(subscriptions, lastOp.type, lastOp.id) :
          ~x.oneShot /\ ~x.expired

\* The step form of C7: processQueue dispatches the events queued at its call in the order
\* they were enqueued, each once, and leaves the queue empty.
C7_Step ==
    lastOp'.op = "processQueue" =>
        /\ eventQueue' = << >>
        /\ Len(delivered') = Len(eventQueue)
        /\ \A i \in DOMAIN delivered' :
              /\ delivered'[i].event = eventQueue[i]
              /\ delivered'[i].by = "processQueue"

\* C7: every step satisfies C7_Step: a drain dispatches the events queued at
\* its call in enqueue order, each once, and returns with the queue empty.
C7_DrainIsFifo == [][C7_Step]_vars

\* A drain dispatched two events of different types, each to a listener.
C7_Witness ==
    /\ lastOp.op = "processQueue"
    /\ Len(delivered) >= 2
    /\ delivered[1].event # delivered[2].event
    /\ delivered[1].invoked # {}
    /\ delivered[2].invoked # {}
    /\ eventQueue = << >>

\* The step form of C8: queueEvent appends the event at the tail of the queue and changes
\* nothing else: no listener runs, no subscription set changes.
C8_Step ==
    lastOp'.op = "queueEvent" =>
        /\ eventQueue' = Append(eventQueue, lastOp'.type)
        /\ subscriptions' = subscriptions
        /\ owned' = owned
        /\ delivered' = << >>

\* C8: every step satisfies C8_Step: queueEvent appends at the tail, runs no
\* listener and changes no subscription set.
C8_QueueEventOnlyAppends == [][C8_Step]_vars

\* An event was queued behind another while its type's set held an expired
\* entry and a live OneShot entry.
C8_Witness ==
    /\ lastOp.op = "queueEvent"
    /\ Len(eventQueue) >= 2
    /\ eventQueue[1] # lastOp.type
    /\ \E x \in At(subscriptions, hash_code(lastOp.type)) : x.expired
    /\ \E x \in At(subscriptions, hash_code(lastOp.type)) : x.oneShot /\ ~x.expired

\* The step form of C9: a drain of a queue holding only e changes the registry and runs the
\* listeners as dispatch(e), through either overload, does in the state the
\* drain starts in: under the key of e's concrete type, each listener with an
\* unexpired entry there once, every other listener not at all.
C9_Step ==
    (lastOp'.op = "processQueue" /\ Len(eventQueue) = 1) =>
        LET e == eventQueue[1]
        IN  /\ Len(delivered') = 1
            /\ \A s \in {EventBase, e} :
                  LET d == dispatch(subscriptions, s, e)
                  IN  /\ subscriptions' = d.subs
                      /\ delivered'[1].event = d.pass.event
                      /\ delivered'[1].invoked = d.pass.invoked
                      /\ delivered'[1].erased = d.pass.erased
            /\ \A a \in Addrs :
                  CallsIn(delivered'[1], a) =
                      Cardinality({x \in EntriesOf(subscriptions, e, a) : ~x.expired})

\* C9: every step satisfies C9_Step: a drain of a one-event queue has the
\* effect of dispatch(e) in the state the drain starts in, routed by e's
\* dynamic type.
C9_DrainIsDispatch == [][C9_Step]_vars

\* A drain of one event ran a listener and erased an entry.
C9_Witness ==
    /\ lastOp.op = "processQueue"
    /\ Len(delivered) = 1
    /\ delivered[1].invoked # {}
    /\ delivered[1].erased # {}

\* The step form of C10: a dispatch of type A runs only callbacks subscribed for A, each
\* listener with an unexpired entry under A once, and changes only A's
\* subscription set; unsubscribeFrom<A> changes only A's set.
C10_Step ==
    /\ lastOp'.op = "dispatch" =>
          /\ \A u \in EventTypes \ {lastOp'.type} :
                /\ At(subscriptions', hash_code(u)) = At(subscriptions, hash_code(u))
          /\ \A s \in delivered'[1].invoked :
                /\ s.etype = lastOp'.type
                /\ s \in At(subscriptions, hash_code(lastOp'.type))
          /\ \A a \in Addrs :
                CallsIn(delivered'[1], a) =
                    Cardinality({x \in EntriesOf(subscriptions, lastOp'.type, a) : ~x.expired})
    /\ lastOp'.op = "unsubscribeFrom" =>
          \A u \in EventTypes \ {lastOp'.type} :
              At(subscriptions', hash_code(u)) = At(subscriptions, hash_code(u))

\* C10: every step satisfies C10_Step: dispatch of A and unsubscribeFrom<A>
\* touch only A's subscription set, and a dispatch of A runs only entries
\* subscribed for A.
C10_TypesAreIndependent == [][C10_Step]_vars

\* A dispatch of one type fired a listener's OneShot entry while the same
\* listener's OneShot entry under the other type stayed.
C10_Witness ==
    /\ lastOp.op = "dispatch"
    /\ \E s \in delivered[1].invoked :
          /\ s.oneShot
          /\ \E u \in EventTypes \ {lastOp.type} :
                \E x \in EntriesOf(subscriptions, u, s.id) : x.oneShot /\ ~x.expired

\* The step form of C11: a dispatch of an event whose key is absent or whose
\* set is empty, and a drain of events all of which are such, runs no
\* callback and leaves the registry as it was; the drain consumes the events.
C11_Step ==
    /\ (lastOp'.op = "dispatch" /\ At(subscriptions, hash_code(lastOp'.type)) = {}) =>
          /\ delivered'[1].invoked = {}
          /\ delivered'[1].erased = {}
          /\ subscriptions' = subscriptions
          /\ eventQueue' = eventQueue
          /\ owned' = owned
    /\ (/\ lastOp'.op = "processQueue"
        /\ \A i \in DOMAIN eventQueue : At(subscriptions, hash_code(eventQueue[i])) = {}) =>
          /\ Len(delivered') = Len(eventQueue)
          /\ \A i \in DOMAIN delivered' :
                delivered'[i].invoked = {} /\ delivered'[i].erased = {}
          /\ subscriptions' = subscriptions
          /\ eventQueue' = << >>
          /\ owned' = owned

\* C11: every step satisfies C11_Step: dispatching or draining an event
\* nobody is subscribed to is a no-op on the registry, runs no callback, and
\* a drain still consumes the event.
C11_NoSubscriberIsNoOp == [][C11_Step]_vars

\* A drain consumed two events, one whose key is absent and one whose key
\* holds an empty set, while a live listener is subscribed to nothing.
C11_Witness ==
    /\ lastOp.op = "processQueue"
    /\ Len(delivered) = 2
    /\ eventQueue = << >>
    /\ \A i \in DOMAIN delivered : delivered[i].invoked = {}
    /\ \E i \in DOMAIN delivered : hash_code(delivered[i].event) \notin DOMAIN subscriptions
    /\ \E i \in DOMAIN delivered :
          /\ hash_code(delivered[i].event) \in DOMAIN subscriptions
          /\ subscriptions[hash_code(delivered[i].event)] = {}
    /\ \E a \in Addrs : owned[a]

\* The step form of C18: unsubscribeFrom<T>(L) erases from T's set the entry
\* with L's identity, expired or not, and nothing else; it runs no callback,
\* leaves the queue alone, and changes no set when L has no entry under T.
C18_Step ==
    lastOp'.op = "unsubscribeFrom" =>
        LET t == lastOp'.type
            a == lastOp'.id
        IN  /\ At(subscriptions', hash_code(t)) =
                   {x \in At(subscriptions, hash_code(t)) : x.id # a}
            /\ \A u \in EventTypes \ {t} :
                   At(subscriptions', hash_code(u)) = At(subscriptions, hash_code(u))
            /\ eventQueue' = eventQueue
            /\ owned' = owned
            /\ delivered' = << >>
            /\ EntriesOf(subscriptions, t, a) = {} =>
                   \A u \in EventTypes :
                       At(subscriptions', hash_code(u)) = At(subscriptions, hash_code(u))

\* C18: every step satisfies C18_Step: unsubscribeFrom<T>(L) removes exactly
\* L's entry under T, by identity, without running a callback.
C18_UnsubscribeRemovesExactlyOne == [][C18_Step]_vars

\* After unsubscribeFrom<T>(L): another listener's entry is still under T,
\* L's own entry is still under the other type, and an event is still queued.
C18_Witness ==
    /\ lastOp.op = "unsubscribeFrom"
    /\ EntriesOf(subscriptions, lastOp.type, lastOp.id) = {}
    /\ \E x \in At(subscriptions, hash_code(lastOp.type)) : x.id # lastOp.id
    /\ \E u \in EventTypes \ {lastOp.type} :
          EntriesOf(subscriptions, u, lastOp.id) # {}
    /\ eventQueue # << >>

\* C19: after subscribeTo<T>(L2) with L2 alive, T's set holds an unexpired
\* entry with L2's identity (one the next dispatch of T calls and keeps),
\* also when the set held the stale entry of an expired listener that had
\* the same address.
C19_StaleEntryNeverShadows ==
    lastOp.op = "subscribeTo" =>
        \E x \in EntriesOf(subscriptions, lastOp.type, lastOp.id) : ~x.expired

\* The step form of C12: when onEvent throws, the exception reaches the
\* program: every dispatcher call in progress is abandoned where it stands,
\* with nothing erased and nothing popped; and no callback runs and no queued
\* event is dispatched or popped after that until the program calls again.
C12_Step ==
    /\ lastOp'.op = "throw" =>
          /\ status' = "fault"
          /\ stack' = << >>
          /\ subscriptions' = subscriptions
          /\ eventQueue' = eventQueue
    /\ lastOp'.op \in {"onEvent", "expired", "return", "front", "pop"} =>
          /\ status = "ok"
          /\ stack # << >>

\* C12: every step satisfies C12_Step: a fault raised by onEvent is not
\* caught by the dispatcher and ends the pass and the drain.
C12_FaultPropagates == [][C12_Step]_vars

\* A listener threw during a drain while another listener's OneShot entry
\* for the same event was still waiting (it was not reached: it would have
\* been erased) and another event was queued behind.
C12_Witness ==
    /\ lastOp.op = "throw"
    /\ status = "fault"
    /\ stack = << >>
    /\ frontPasses = 1
    /\ Len(eventQueue) >= 2
    /\ Head(eventQueue) = lastOp.type
    /\ \E x \in At(subscriptions, hash_code(lastOp.type)) :
          x.id # lastOp.id /\ x.oneShot /\ ~x.expired

\* C13: while a pass over T's set is in progress, the set changes only once
\* every element has been visited and no callback of the pass is running.
C13_SetUntouchedDuringPass ==
    [][\A i \in DOMAIN stack :
          (/\ stack[i].op = "dispatch"
           /\ i \in DOMAIN stack'
           /\ At(subscriptions', hash_code(stack[i].event)) #
                  At(subscriptions, hash_code(stack[i].event)))
          => (stack'[i].cur = NoId /\ stack'[i].todo = {})]_vars

\* C14: no pass calls a listener through an element that was inserted into
\* the set while the pass was in progress.
C14_AddedDuringPassNotCalled ==
    \A i \in DOMAIN stack :
        stack[i].op = "dispatch" => stack[i].cur \notin stack[i].added

\* C15: a processQueue call in progress eventually returns.
C15_ProcessQueueTerminates ==
    (stack # << >> /\ stack[1].op = "processQueue") ~> (stack = << >>)

\* C16: processQueue starts at most one pass for an event of the queue, and
\* pops an event only after exactly one pass for it: no queued event is
\* dispatched twice or dropped, whatever the callbacks queue or call.
C16_QueuedEventDispatchedOnce ==
    [][/\ frontPasses' <= 1
       /\ lastOp'.op = "pop" => frontPasses = 1]_vars

\* C17: the invocation attempt of a OneShot element, whether its weak_ptr
\* had expired, its onEvent returned or its onEvent threw, leaves no element
\* with that identity in the set.
C17_OneShotRemovedAfterAttempt ==
    [][(/\ lastOp'.op \in {"expired", "return", "throw"}
        /\ \E x \in EntriesOf(subscriptions, lastOp'.type, lastOp'.id) : x.oneShot)
       => EntriesOf(subscriptions', lastOp'.type, lastOp'.id) = {}]_vars

\* The step form of C20: when onEvent throws during a drain, the queue is
\* left as it was, with the event being dispatched at its front; processQueue
\* always dispatches the front of the queue, to every element of its set,
\* and pops only an event it has dispatched.
C20_Step ==
    /\ (lastOp'.op = "throw" /\ stack[1].op = "processQueue") =>
          /\ eventQueue' = eventQueue
          /\ eventQueue # << >>
          /\ Head(eventQueue) = lastOp'.type
          /\ stack' = << >>
    /\ lastOp'.op = "front" =>
          /\ eventQueue' = eventQueue
          /\ stack'[Len(stack')].event = Head(eventQueue)
          /\ stack'[Len(stack')].todo =
                 {x.id : x \in At(subscriptions, hash_code(Head(eventQueue)))}
    /\ lastOp'.op = "pop" =>
          /\ frontPasses >= 1
          /\ Head(eventQueue) = lastOp'.type
          /\ eventQueue' = Tail(eventQueue)

\* C20: every step satisfies C20_Step: a fault during a drain loses no
\* queued event, and a later drain dispatches the faulting event again,
\* before the events behind it.
C20_FaultLosesNoEvent == [][C20_Step]_vars

\* After a fault, processQueue is dispatching the same front event a second
\* time, to a listener, with another event still queued behind it.
C20_Witness ==
    /\ lastOp.op = "front"
    /\ frontPasses = 2
    /\ Len(eventQueue) >= 2
    /\ eventQueue[1] # eventQueue[2]
    /\ Top.todo # {}

====
